---- MODULE Spec2Model ----
(***************************************************************************)
(* Model of src/data_to_csv.py: the channel -> playlist -> video           *)
(* collection pipeline and its four CSV outputs.                           *)
(*                                                                         *)
(* Identifiers are positive integers, None is 0.  Handles are 1..n, the    *)
(* channel of handle h is 10*h, playlists of channel c are c+1, c+2, ...,  *)
(* videos are 101, 102, ...  A continuation token is the number of pages   *)
(* already served.  Record fields the claims never read (title, counts,    *)
(* timestamps) are left out of the flat records.                           *)
(***************************************************************************)
EXTENDS Integers, Sequences, FiniteSets, TLC

None == 0

\* ---- bounds of the model ------------------------------------------------
NumHandles == 2
MaxPages == 2
\* how many videos of one batch the videos request may leave out or report
\* with a malformed duration
MaxDefects == 1

\* ---- program constants --------------------------------------------------
MaxWorkersIds == 5
MaxWorkersPlaylists == 5
MaxWorkersVideos == 10

\* the two exception classes the handlers name: HttpError and Exception
Kinds == {"HttpError", "Exception"}

FileNames == {"channels.csv", "playlists.csv", "videos.csv", "playlist_videos.csv"}

\* ---- the remote API (external collaborator) -----------------------------
ChannelOf(h) == 10 * h

\* pages of the playlists listing of channel c
ServerPlaylistPages(c) ==
  CASE c = 10 -> << <<11>>, <<12>> >>
    [] c = 20 -> << <<21>> >>
    [] OTHER  -> << <<>> >>

\* pages of the playlist-items listing of playlist p (video 101 is in two
\* playlists, playlist 12 is empty)
ServerItemPages(p) ==
  CASE p = 11 -> [k \in 1..MaxPages |-> IF k = 1 THEN <<101, 102>> ELSE <<101 + k>>]
    [] p = 12 -> << <<>> >>
    [] p = 21 -> << <<101>> >>
    [] OTHER  -> << <<>> >>

\* a list response: the page after the `tok` pages already served, and the
\* token of the next one if there is one
ListResponse(pages, tok) ==
  [items |-> IF tok + 1 <= Len(pages) THEN pages[tok + 1] ELSE <<>>,
   nextPageToken |-> IF tok + 1 < Len(pages) THEN tok + 1 ELSE None]

\* the ISO-8601 duration the API reports for video v, as <<hours, minutes,
\* seconds>>; a malformed duration is the empty tuple
ServerDuration(v, bad) == IF v \in bad THEN <<>> ELSE <<v % 2, v % 7, v % 60>>

\* ---- pure helpers of the program ------------------------------------------
RECURSIVE Concat(_)
\* [p for sublist in results for p in sublist]
Concat(lists) ==
  IF lists = <<>> THEN <<>> ELSE Head(lists) \o Concat(Tail(lists))

IsSet(cid) == cid # None
\* [cid for cid in channel_ids if cid]
FilterIds(ids) == SelectSeq(ids, IsSet)

\* main without the early return
NoChannelIdsNever(ids) == FALSE
\* if not channel_ids: return
NoChannelIds(ids) == ids = <<>>

\* fetch_channel_id without the return after a non-empty forUsername answer
NeedsHandleLookupAlways(items) == TRUE
\* if response.get('items'): return ...   (otherwise fall through to forHandle)
NeedsHandleLookup(items) == items = <<>>

\* response['items'][0]['id'] if response.get('items') else None
FirstId(items) == IF items # <<>> THEN items[1] ELSE None

\* except HttpError / except Exception of each fetch function
ChannelIdCatches(kind) == kind \in {"HttpError", "Exception"}
ChannelDataCatches(kind) == kind \in {"HttpError", "Exception"}
\* fetch_playlist_data without its except Exception clause
PlaylistDataCatchesHttpOnly(kind) == kind = "HttpError"
PlaylistDataCatches(kind) == kind \in {"HttpError", "Exception"}
VideoDataCatches(kind) == kind \in {"HttpError", "Exception"}
VideoDetailsCatches(kind) == kind \in {"HttpError", "Exception"}

\* isodate.parse_duration(d).total_seconds(); raises on a malformed duration
Parseable(d) == Len(d) = 3
ParseDuration(d) == d[1] * 3600 + d[2] * 60 + d[3]

\* a walk that breaks after its first page
WalkEndsFirstPage(tok) == TRUE
\* if not next_page_token: break
WalkEnds(tok) == tok = None

\* save_to_csv(data, filename): writes only a non-empty list
SaveToCsv(fs, data, name) ==
  IF data # <<>> THEN [fs EXCEPT ![name] = [written |-> TRUE, rows |-> data]] ELSE fs

\* the playlist records one page contributes
PlaylistRecords(items, channel_id) ==
  [k \in 1..Len(items) |-> [playlist_id |-> items[k], channel_id |-> channel_id]]

\* the items of the videos response for the requested ids: the API leaves
\* out the videos it does not serve (deleted, private)
VideosResponse(video_ids, missing) ==
  LET Served(v) == v \notin missing IN SelectSeq(video_ids, Served)

\* fetch_video_details(video_ids): outcome is "ok" or the kind of the error
\* the videos request raised; `missing` are the videos the response leaves
\* out and `bad` those whose duration is malformed.  The list comprehension
\* is inside the try: one malformed duration raises out of it and nothing
\* was added to `videos`.
FetchVideoDetails(video_ids, outcome, missing, bad) ==
  LET items == VideosResponse(video_ids, missing) IN
    IF outcome # "ok" THEN <<>>
    ELSE IF \E k \in 1..Len(items) : ~Parseable(ServerDuration(items[k], bad))
         THEN <<>>
         ELSE [k \in 1..Len(items) |->
                 [video_id |-> items[k],
                  duration |-> ParseDuration(ServerDuration(items[k], bad))]]

\* video_order = 1
FirstOrder == 1

\* fetch_video_data without video_order += 1 inside the loop over a page
VideoRecordsSameOrder(details, playlist_id, order) ==
  [k \in 1..Len(details) |->
     [playlist_id |-> playlist_id, video_id |-> details[k].video_id,
      video_order |-> order, duration |-> details[k].duration]]
\* the records one page appends to `videos`, numbered from `order`
VideoRecords(details, playlist_id, order) ==
  [k \in 1..Len(details) |->
     [playlist_id |-> playlist_id, video_id |-> details[k].video_id,
      video_order |-> order + k - 1, duration |-> details[k].duration]]

\* each element of `more` inserted at the front of `list`
ExtendPrepending(list, more) ==
  [k \in 1..Len(more) |-> more[Len(more) + 1 - k]] \o list
\* list.extend(more)
Extend(list, more) == list \o more

\* the playlist_videos rows made of one future's result
LinkRecords(videos) ==
  [k \in 1..Len(videos) |->
     [playlist_id |-> videos[k].playlist_id, video_id |-> videos[k].video_id,
      video_order |-> videos[k].video_order]]

\* the stage's executor has left its `with` block: every task has ended
Finished(t) == t.st \in {"done", "raised", "consumed"}
\* main going on as soon as one task of the stage has ended
StageFinishedAny(tasks) == \E i \in DOMAIN tasks : Finished(tasks[i])
StageFinished(tasks) == \A i \in DOMAIN tasks : Finished(tasks[i])

Running(tasks) == Cardinality({i \in DOMAIN tasks : tasks[i].st = "running"})
\* a task that has not started needs a free worker
MayStep(tasks, i, maxWorkers) ==
  \/ tasks[i].st = "running"
  \/ tasks[i].st = "new" /\ Running(tasks) < maxWorkers

\* ---- state ----------------------------------------------------------------
VARIABLES
  usernames,        \* channel_usernames
  pc,               \* where main is: "ids", "channels", "playlists", "videos", "done"
  raised,           \* an exception has escaped main
  idTask,           \* the fetch_channel_id calls of executor.map, one per handle
  channel_ids,      \* main's channel_ids after the filter
  chanLog,          \* outcome of each channels request of fetch_channel_data
  channels,         \* result of fetch_channel_data
  plTask,           \* the fetch_playlist_data calls, one per channel id
  playlists,        \* main's playlists
  vTask,            \* the fetch_video_data futures, one per playlist record
  all_videos,       \* main's all_videos
  playlist_videos,  \* main's playlist_videos
  files,            \* the output files
  saves             \* the file names save_to_csv was called with, in order

vars == <<usernames, pc, raised, idTask, channel_ids, chanLog, channels, plTask,
          playlists, vTask, all_videos, playlist_videos, files, saves>>

NewIdTask == [st |-> "new", result |-> None, log |-> <<>>]
NewPlaylistTask == [st |-> "new", token |-> None, playlists |-> <<>>, log |-> <<>>]
NewVideoTask ==
  [st |-> "new", token |-> None, videos |-> <<>>, order |-> FirstOrder, log |-> <<>>,
   summary |-> "none"]

Init ==
  /\ usernames \in {[h \in 1..n |-> h] : n \in {0, NumHandles}}
  /\ pc = "ids"
  /\ raised = FALSE
  /\ idTask = [h \in DOMAIN usernames |-> NewIdTask]
  /\ channel_ids = <<>>
  /\ chanLog = <<>>
  /\ channels = <<>>
  /\ plTask = <<>>
  /\ playlists = <<>>
  /\ vTask = <<>>
  /\ all_videos = <<>>
  /\ playlist_videos = <<>>
  /\ files = [f \in FileNames |-> [written |-> FALSE, rows |-> <<>>]]
  /\ saves = <<>>

\* ---- stage 1: fetch_channel_id, one call per handle -------------------------
\* the channels request by forUsername
LookupUsername(i) ==
  /\ pc = "ids"
  /\ i \in DOMAIN idTask
  /\ idTask[i].st = "new"
  /\ Running(idTask) < MaxWorkersIds
  /\ \E resp \in Kinds \cup {<<>>, <<ChannelOf(usernames[i])>>} :
       LET entry == [form |-> "forUsername", ok |-> resp \notin Kinds,
                     items |-> IF resp \in Kinds THEN <<>> ELSE resp]
           t == idTask[i]
       IN idTask' = [idTask EXCEPT ![i] =
            IF resp \in Kinds
            THEN [t EXCEPT !.st = IF ChannelIdCatches(resp) THEN "done" ELSE "raised",
                           !.log = Append(t.log, entry)]
            ELSE IF NeedsHandleLookup(resp)
            THEN [t EXCEPT !.st = "running", !.log = Append(t.log, entry)]
            ELSE [t EXCEPT !.st = "done", !.result = FirstId(resp),
                           !.log = Append(t.log, entry)]]
  /\ UNCHANGED <<usernames, pc, raised, channel_ids, chanLog, channels, plTask,
                 playlists, vTask, all_videos, playlist_videos, files, saves>>

\* the channels request by forHandle
LookupHandle(i) ==
  /\ pc = "ids"
  /\ i \in DOMAIN idTask
  /\ idTask[i].st = "running"
  /\ \E resp \in Kinds \cup {<<>>, <<ChannelOf(usernames[i])>>} :
       LET entry == [form |-> "forHandle", ok |-> resp \notin Kinds,
                     items |-> IF resp \in Kinds THEN <<>> ELSE resp]
           t == idTask[i]
       IN idTask' = [idTask EXCEPT ![i] =
            IF resp \in Kinds
            THEN [t EXCEPT !.st = IF ChannelIdCatches(resp) THEN "done" ELSE "raised",
                           !.log = Append(t.log, entry)]
            ELSE [t EXCEPT !.st = "done", !.result = FirstId(resp),
                           !.log = Append(t.log, entry)]]
  /\ UNCHANGED <<usernames, pc, raised, channel_ids, chanLog, channels, plTask,
                 playlists, vTask, all_videos, playlist_videos, files, saves>>

\* list(executor.map(...)) has returned, the filter, and the early return.  The
\* responses the calls saw are local to them and gone once they have returned.
CollectChannelIds ==
  /\ pc = "ids"
  /\ StageFinished(idTask)
  /\ IF \E i \in DOMAIN idTask : idTask[i].st = "raised"
     THEN /\ raised' = TRUE
          /\ pc' = "done"
          /\ UNCHANGED channel_ids
     ELSE /\ channel_ids' = FilterIds([i \in DOMAIN idTask |-> idTask[i].result])
          /\ pc' = IF NoChannelIds(channel_ids') THEN "done" ELSE "channels"
          /\ UNCHANGED raised
  /\ idTask' = [i \in DOMAIN idTask |-> [idTask[i] EXCEPT !.log = <<>>]]
  /\ UNCHANGED <<usernames, chanLog, channels, plTask, playlists, vTask,
                 all_videos, playlist_videos, files, saves>>

\* ---- stage 2: fetch_channel_data and save_to_csv(channels) ------------------
\* the channel rows of the requests that succeeded, in request order
RECURSIVE ChannelRows(_, _)
ChannelRows(ids, outcome) ==
  IF ids = <<>> THEN <<>>
  ELSE (IF Head(outcome) = "ok" THEN <<[channel_id |-> Head(ids)]>> ELSE <<>>)
       \o ChannelRows(Tail(ids), Tail(outcome))

FetchChannelData ==
  /\ pc = "channels"
  /\ \E outcome \in [DOMAIN channel_ids -> {"ok"} \cup Kinds] :
       IF \E i \in DOMAIN outcome : outcome[i] # "ok" /\ ~ChannelDataCatches(outcome[i])
       THEN /\ raised' = TRUE
            /\ pc' = "done"
            /\ UNCHANGED <<chanLog, channels, plTask, files, saves>>
       ELSE /\ chanLog' = [i \in DOMAIN outcome |->
                             IF outcome[i] = "ok" THEN "ok" ELSE "fail"]
            /\ channels' = ChannelRows(channel_ids, outcome)
            /\ files' = SaveToCsv(files, channels', "channels.csv")
            /\ saves' = Append(saves, "channels.csv")
            /\ plTask' = [i \in DOMAIN channel_ids |-> NewPlaylistTask]
            /\ pc' = "playlists"
            /\ UNCHANGED raised
  /\ UNCHANGED <<usernames, idTask, channel_ids, playlists, vTask, all_videos,
                 playlist_videos>>

\* what the request log holds for a request that raised
NoResponse == [items |-> <<>>, nextPageToken |-> None]

\* ---- stage 3: fetch_playlist_data, one call per channel id ------------------
\* one iteration of the while loop: a playlists request and what follows it
PlaylistPage(i) ==
  /\ pc = "playlists"
  /\ i \in DOMAIN plTask
  /\ MayStep(plTask, i, MaxWorkersPlaylists)
  /\ \E out \in {"ok"} \cup Kinds :
       LET t == plTask[i]
           resp == ListResponse(ServerPlaylistPages(channel_ids[i]), t.token)
       IN plTask' = [plTask EXCEPT ![i] =
            IF out # "ok"
            THEN [t EXCEPT !.st = IF PlaylistDataCatches(out) THEN "done" ELSE "raised",
                           !.log = Append(t.log, [sent |-> t.token, ok |-> FALSE,
                                                  resp |-> NoResponse])]
            ELSE [t EXCEPT
                    !.st = IF WalkEnds(resp.nextPageToken) THEN "done" ELSE "running",
                    !.token = resp.nextPageToken,
                    !.playlists = t.playlists \o PlaylistRecords(resp.items, channel_ids[i]),
                    !.log = Append(t.log, [sent |-> t.token, ok |-> TRUE,
                                           resp |-> resp])]]
  /\ UNCHANGED <<usernames, pc, raised, idTask, channel_ids, chanLog, channels,
                 playlists, vTask, all_videos, playlist_videos, files, saves>>

\* executor.map has returned every list, the flattening, save_to_csv(playlists)
\* and the submission of one fetch_video_data future per playlist record
CollectPlaylists ==
  /\ pc = "playlists"
  /\ StageFinished(plTask)
  /\ IF \E i \in DOMAIN plTask : plTask[i].st = "raised"
     THEN /\ raised' = TRUE
          /\ pc' = "done"
          /\ UNCHANGED <<playlists, vTask, files, saves>>
     ELSE /\ playlists' = Concat([i \in DOMAIN plTask |-> plTask[i].playlists])
          /\ files' = SaveToCsv(files, playlists', "playlists.csv")
          /\ saves' = Append(saves, "playlists.csv")
          /\ vTask' = [j \in DOMAIN playlists' |-> NewVideoTask]
          /\ pc' = "videos"
          /\ UNCHANGED raised
  /\ UNCHANGED <<usernames, idTask, channel_ids, chanLog, channels, plTask,
                 all_videos, playlist_videos>>

\* ---- stage 4: fetch_video_data, one future per playlist record --------------
SeqRange(s) == {s[k] : k \in DOMAIN s}

\* what may be wrong with the videos of one batch: <<missing, bad>>
Defects(S) ==
  {<<m, b>> \in (SUBSET S) \X (SUBSET S) :
     m \cap b = {} /\ Cardinality(m \cup b) <= MaxDefects}

\* one iteration of the while loop: a playlistItems request, the
\* fetch_video_details call on its items, and the numbering of what came back
VideoPage(j) ==
  /\ pc = "videos"
  /\ j \in DOMAIN vTask
  /\ MayStep(vTask, j, MaxWorkersVideos)
  /\ LET t == vTask[j]
         pid == playlists[j].playlist_id
         resp == ListResponse(ServerItemPages(pid), t.token)
     IN \/ \E out \in Kinds :
             vTask' = [vTask EXCEPT ![j] =
               [t EXCEPT !.st = IF VideoDataCatches(out) THEN "done" ELSE "raised",
                         !.log = Append(t.log, [sent |-> t.token, ok |-> FALSE,
                                                resp |-> NoResponse,
                                                details |-> "none",
                                                missing |-> {}, bad |-> {},
                                                got |-> <<>>])]]
        \/ \E dout \in {"ok"} \cup Kinds :
           \E defects \in (IF dout = "ok" THEN Defects(SeqRange(resp.items)) ELSE {<<{}, {}>>}) :
             LET missing == defects[1]
                 bad == defects[2]
                 escapes == dout # "ok" /\ ~VideoDetailsCatches(dout)
                 details == FetchVideoDetails(resp.items, dout, missing, bad)
                 entry == [sent |-> t.token, ok |-> TRUE, resp |-> resp,
                           details |-> IF dout = "ok" THEN "ok" ELSE "fail",
                           missing |-> missing, bad |-> bad,
                           got |-> [k \in DOMAIN details |-> details[k].video_id]]
             IN vTask' = [vTask EXCEPT ![j] =
                  IF escapes
                  THEN [t EXCEPT !.st = IF VideoDataCatches(dout) THEN "done" ELSE "raised",
                                 !.log = Append(t.log, [entry EXCEPT !.got = <<>>])]
                  ELSE [t EXCEPT
                          !.st = IF WalkEnds(resp.nextPageToken) THEN "done" ELSE "running",
                          !.token = resp.nextPageToken,
                          !.videos = t.videos \o VideoRecords(details, pid, t.order),
                          !.order = t.order + Len(details),
                          !.log = Append(t.log, entry)]]
  /\ UNCHANGED <<usernames, pc, raised, idTask, channel_ids, chanLog, channels, plTask,
                 playlists, all_videos, playlist_videos, files, saves>>

\* "failed": a request of the walk failed; "partial": none did, but a video
\* was left out or malformed; "clean": neither
Summary(log) ==
  IF \E k \in DOMAIN log : ~log[k].ok \/ log[k].details = "fail" THEN "failed"
  ELSE IF \E k \in DOMAIN log : log[k].missing # {} \/ log[k].bad # {} THEN "partial"
  ELSE "clean"

\* one turn of `for future in as_completed(futures)`.  The request log of a
\* future is kept until its result is consumed; after that only its summary
\* is remembered.
ConsumeFuture(j) ==
  /\ pc = "videos"
  /\ j \in DOMAIN vTask
  /\ vTask[j].st \in {"done", "raised"}
  /\ IF vTask[j].st = "raised"
     THEN /\ raised' = TRUE
          /\ pc' = "done"
          /\ UNCHANGED <<vTask, all_videos, playlist_videos>>
     ELSE /\ all_videos' = Extend(all_videos, vTask[j].videos)
          /\ playlist_videos' = Extend(playlist_videos, LinkRecords(vTask[j].videos))
          /\ vTask' = [vTask EXCEPT ![j] =
               [vTask[j] EXCEPT !.st = "consumed", !.log = <<>>,
                                !.summary = Summary(vTask[j].log)]]
          /\ UNCHANGED <<raised, pc>>
  /\ UNCHANGED <<usernames, idTask, channel_ids, chanLog, channels, plTask, playlists,
                 files, saves>>

AllConsumed(tasks) == \A j \in DOMAIN tasks : tasks[j].st = "consumed"

\* as_completed is exhausted: save_to_csv(all_videos), save_to_csv(playlist_videos)
SaveVideos ==
  /\ pc = "videos"
  /\ AllConsumed(vTask)
  /\ files' = SaveToCsv(SaveToCsv(files, all_videos, "videos.csv"),
                        playlist_videos, "playlist_videos.csv")
  /\ saves' = saves \o <<"videos.csv", "playlist_videos.csv">>
  /\ pc' = "done"
  /\ UNCHANGED <<usernames, raised, idTask, channel_ids, chanLog, channels, plTask,
                 playlists, vTask, all_videos, playlist_videos>>

Next ==
  \/ \E i \in 1..NumHandles : LookupUsername(i) \/ LookupHandle(i)
  \/ CollectChannelIds
  \/ FetchChannelData
  \/ \E i \in DOMAIN plTask : PlaylistPage(i)
  \/ CollectPlaylists
  \/ \E j \in DOMAIN vTask : VideoPage(j) \/ ConsumeFuture(j)
  \/ SaveVideos

Spec == Init /\ [][Next]_vars

\* ==== properties ===========================================================
\* ---- helpers of the properties ---------------------------------------------
Ids(recs, field) == [k \in DOMAIN recs |-> recs[k][field]]
Orders(recs) == [k \in DOMAIN recs |-> recs[k].video_order]
Ok(e) == e.ok
\* the pages a walk received, in request order
PageItems(log) == [k \in DOMAIN log |-> IF Ok(log[k]) THEN log[k].resp.items ELSE <<>>]
PageGot(log) == [k \in DOMAIN log |-> log[k].got]
\* the number of items the listing returned over all pages of a walk
ItemCount(log) == Len(Concat(PageItems(log)))
NoListingFails(log) == \A k \in DOMAIN log : Ok(log[k])
NoDetailsFails(log) == \A k \in DOMAIN log : log[k].details # "fail"
NoBadDuration(log) == \A k \in DOMAIN log : log[k].bad = {}
NoneMissing(log) == \A k \in DOMAIN log : log[k].missing = {}
NoDup(s) == \A a, b \in DOMAIN s : a # b => s[a] # s[b]
Without(items, bad) == LET Keep(v) == v \notin bad IN SelectSeq(items, Keep)

\* the token protocol of a walk none of whose listing requests failed: the
\* first request carries no token, each later one the token of the response
\* before it, and only the last response of an ended walk carries none
TokenChain(t) ==
  /\ t.log # <<>> => t.log[1].sent = None
  /\ \A k \in 1..(Len(t.log) - 1) :
       /\ t.log[k].resp.nextPageToken # None
       /\ t.log[k + 1].sent = t.log[k].resp.nextPageToken
  /\ t.st = "running" => t.log[Len(t.log)].resp.nextPageToken # None
  /\ Finished(t) => t.log # <<>> /\ t.log[Len(t.log)].resp.nextPageToken = None

\* ---- C1 --------------------------------------------------------------------
\* C1 as claimed: the records fetch_video_data returns for a playlist are
\* numbered 1..N, N the number of items the playlist-items listing returned
\* over all its pages.
C1_OrderIsOneToItemCount ==
  \A j \in DOMAIN vTask :
    vTask[j].st = "done" =>
      Orders(vTask[j].videos) = [k \in 1..ItemCount(vTask[j].log) |-> k]

\* C1 as amended: the records of a playlist are numbered 1..M in emission
\* order, M the number of records returned; they are the videos the detail
\* batches returned, in page order, and M is at most the item count, equal
\* to it when every detail batch came back whole.
C1_OrderIsOneToRecordCount ==
  \A j \in DOMAIN vTask :
    LET t == vTask[j] IN
      /\ Orders(t.videos) = [k \in 1..Len(t.videos) |-> k]
      /\ t.st # "consumed" =>
           /\ Ids(t.videos, "video_id") = Concat(PageGot(t.log))
           /\ Len(t.videos) <= ItemCount(t.log)
           /\ (NoDetailsFails(t.log) /\ NoBadDuration(t.log) /\ NoneMissing(t.log)) =>
                Len(t.videos) = ItemCount(t.log)

\* a two-page walk whose first detail batch was lost: three items listed,
\* one record, numbered 1
C1_Witness ==
  \E j \in DOMAIN vTask :
    /\ vTask[j].st = "done"
    /\ Len(vTask[j].log) = 2
    /\ ItemCount(vTask[j].log) = 3
    /\ Orders(vTask[j].videos) = <<1>>

\* ---- C2 --------------------------------------------------------------------
CleanPlaylistWalk(t) == Finished(t) /\ NoListingFails(t.log)
CleanVideoWalk(t) ==
  \/ t.st = "done" /\ Summary(t.log) = "clean"
  \/ t.st = "consumed" /\ t.summary = "clean"
FailedVideoWalk(t) ==
  \/ t.st = "done" /\ Summary(t.log) = "failed"
  \/ t.st = "consumed" /\ t.summary = "failed"
Rows(name) == {files[name].rows[k] : k \in DOMAIN files[name].rows}

\* C2: no failure of a remote call lets an exception escape main or stops the
\* run before its end, and at the end the outputs hold the row of every
\* channel whose detail request succeeded, every playlist of every channel
\* whose playlist walk had no failure, and every video of every playlist
\* whose video walk had no failure; a handle that resolved is in channel_ids.
C2_OtherParentsSurvive ==
  /\ ~raised
  /\ pc = "done" \/ ENABLED Next
  /\ pc # "ids" =>
       \A i \in DOMAIN idTask :
         idTask[i].result # None => idTask[i].result \in SeqRange(channel_ids)
  /\ (pc = "done" /\ channel_ids # <<>>) =>
       /\ \A i \in DOMAIN channel_ids :
            chanLog[i] = "ok" => [channel_id |-> channel_ids[i]] \in Rows("channels.csv")
       /\ \A i \in DOMAIN plTask :
            CleanPlaylistWalk(plTask[i]) =>
              \A p \in SeqRange(Concat(ServerPlaylistPages(channel_ids[i]))) :
                [playlist_id |-> p, channel_id |-> channel_ids[i]] \in Rows("playlists.csv")
       /\ \A j \in DOMAIN vTask :
            CleanVideoWalk(vTask[j]) =>
              \A v \in SeqRange(Concat(ServerItemPages(playlists[j].playlist_id))) :
                /\ \E r \in Rows("videos.csv") :
                     r.playlist_id = playlists[j].playlist_id /\ r.video_id = v
                /\ \E r \in Rows("playlist_videos.csv") :
                     r.playlist_id = playlists[j].playlist_id /\ r.video_id = v

\* a finished run in which one channel's detail request, one channel's
\* playlist walk and one playlist's video walk failed, next to a channel and
\* a playlist whose calls all succeeded
C2_Witness ==
  /\ pc = "done"
  /\ \E i, k \in DOMAIN chanLog : chanLog[i] = "fail" /\ chanLog[k] = "ok"
  /\ \E i, k \in DOMAIN plTask :
       /\ ~NoListingFails(plTask[i].log)
       /\ CleanPlaylistWalk(plTask[k]) /\ plTask[k].playlists # <<>>
  /\ \E j, k \in DOMAIN vTask :
       /\ FailedVideoWalk(vTask[j])
       /\ CleanVideoWalk(vTask[k]) /\ vTask[k].videos # <<>>

\* ---- C3 --------------------------------------------------------------------
NoneResolved == \A i \in DOMAIN idTask : idTask[i].result = None

\* C3: once the fetch_channel_id calls are over and none returned an
\* identifier (or there was no handle), main has ended: no channel-detail,
\* playlist or video request was made, save_to_csv was never called, no
\* output file was written, and no exception escaped.
C3_NoIdsNoOutput ==
  (pc # "ids" /\ NoneResolved) =>
    /\ pc = "done"
    /\ ~raised
    /\ chanLog = <<>> /\ plTask = <<>> /\ vTask = <<>>
    /\ saves = <<>>
    /\ \A f \in FileNames : ~files[f].written

\* main has returned after every one of the handles failed to resolve
C3_Witness ==
  /\ pc = "done"
  /\ Len(usernames) = NumHandles
  /\ NoneResolved

\* ---- C4 --------------------------------------------------------------------
\* C4 as claimed: a walk of fetch_playlist_data or fetch_video_data in which
\* no call fails follows the token protocol and returns the items of all its
\* pages, in page order and in the order within each page, none twice.
C4_WalkReturnsEveryItem ==
  /\ \A i \in DOMAIN plTask :
       LET t == plTask[i] IN
         NoListingFails(t.log) =>
           /\ TokenChain(t)
           /\ Ids(t.playlists, "playlist_id") = Concat(PageItems(t.log))
           /\ NoDup(Ids(t.playlists, "playlist_id"))
  /\ \A j \in DOMAIN vTask :
       LET t == vTask[j] IN
         (t.st # "consumed" /\ NoListingFails(t.log) /\ NoDetailsFails(t.log)) =>
           /\ TokenChain(t)
           /\ Ids(t.videos, "video_id") = Concat(PageItems(t.log))
           /\ NoDup(Ids(t.videos, "video_id"))

\* C4 as amended: the same, but the result of a walk of fetch_video_data is
\* the concatenation, in page order, of the records fetch_video_details
\* returned for each page; these are the items of all its pages when the
\* videos responses left no requested video out and no duration was
\* malformed.
C4_WalkReturnsEveryParsedItem ==
  /\ \A i \in DOMAIN plTask :
       LET t == plTask[i] IN
         NoListingFails(t.log) =>
           /\ TokenChain(t)
           /\ Ids(t.playlists, "playlist_id") = Concat(PageItems(t.log))
           /\ NoDup(Ids(t.playlists, "playlist_id"))
  /\ \A j \in DOMAIN vTask :
       LET t == vTask[j] IN
         (t.st # "consumed" /\ NoListingFails(t.log) /\ NoDetailsFails(t.log)) =>
           /\ TokenChain(t)
           /\ Ids(t.videos, "video_id") = Concat(PageGot(t.log))
           /\ NoDup(Ids(t.videos, "video_id"))
           /\ (NoBadDuration(t.log) /\ NoneMissing(t.log)) =>
                Ids(t.videos, "video_id") = Concat(PageItems(t.log))

\* a playlist walk and a video walk of two pages each have ended without a
\* failure, the video walk with all three of its items
C4_Witness ==
  /\ \E i \in DOMAIN plTask :
       CleanPlaylistWalk(plTask[i]) /\ Len(plTask[i].log) = 2
  /\ \E j \in DOMAIN vTask :
       /\ vTask[j].st = "done" /\ CleanVideoWalk(vTask[j])
       /\ Len(vTask[j].log) >= 2
       /\ Len(vTask[j].videos) >= 3

\* ---- C5 --------------------------------------------------------------------
\* C5: a fetch_playlist_data or fetch_video_data call any of whose remote
\* calls failed returns the empty list.
C5_FailedParentHasNoChildren ==
  /\ \A i \in DOMAIN plTask :
       (Finished(plTask[i]) /\ ~NoListingFails(plTask[i].log)) =>
         plTask[i].playlists = <<>>
  /\ \A j \in DOMAIN vTask :
       (vTask[j].st = "done" /\ Summary(vTask[j].log) = "failed") =>
         vTask[j].videos = <<>>

\* ---- C6 --------------------------------------------------------------------
\* C6: when one video of a batch passed to fetch_video_details has a
\* malformed duration, the batch's other videos are still returned.
C6_OnlyBadVideoSkipped ==
  \A j \in DOMAIN vTask :
    \A k \in DOMAIN vTask[j].log :
      LET e == vTask[j].log[k] IN
        (e.ok /\ e.details = "ok" /\ Cardinality(e.bad) = 1) =>
          e.got = Without(e.resp.items, e.missing \cup e.bad)

\* ---- C7 --------------------------------------------------------------------
\* C7: a channel-detail or playlist request has been issued only if every
\* fetch_channel_id call has ended; a fetch_video_data future exists only if
\* every fetch_playlist_data call has ended and save_to_csv was called for
\* playlists.csv; save_to_csv was called for videos.csv or
\* playlist_videos.csv only if every fetch_video_data future has ended.
C7_StageBarriers ==
  /\ (pc # "ids" \/ chanLog # <<>> \/ plTask # <<>>) =>
       \A i \in DOMAIN idTask : Finished(idTask[i])
  /\ (vTask # <<>> \/ pc \in {"videos"}) =>
       /\ \A i \in DOMAIN plTask : Finished(plTask[i])
       /\ "playlists.csv" \in SeqRange(saves)
  /\ ({"videos.csv", "playlist_videos.csv"} \cap SeqRange(saves) # {}
        \/ files["videos.csv"].written \/ files["playlist_videos.csv"].written) =>
       \A j \in DOMAIN vTask : Finished(vTask[j])
  /\ \A i \in DOMAIN plTask : plTask[i].log # <<>> => pc # "ids"
  /\ \A j \in DOMAIN vTask : vTask[j].log # <<>> => pc \in {"videos", "done"}

\* the run has passed all three barriers with two handles and three futures
C7_Witness ==
  /\ pc = "done"
  /\ Len(idTask) = 2
  /\ Len(vTask) = 3
  /\ files["videos.csv"].written

\* ---- C8 --------------------------------------------------------------------
Contiguous(recs) ==
  \A a, b, c \in DOMAIN recs :
    (a < b /\ b < c /\ recs[a].playlist_id = recs[c].playlist_id) =>
      recs[b].playlist_id = recs[a].playlist_id
Increasing(recs) ==
  \A a, b \in DOMAIN recs :
    (a < b /\ recs[a].playlist_id = recs[b].playlist_id) =>
      recs[a].video_order < recs[b].video_order
OfPlaylist(recs, p) == LET Is(r) == r.playlist_id = p IN SelectSeq(recs, Is)
OfChannel(recs, c) == LET Is(r) == r.channel_id = c IN SelectSeq(recs, Is)

\* C8: in `playlists` the records of each channel are the list
\* fetch_playlist_data returned for it, in its order; in all_videos and
\* playlist_videos the records of each consumed future are that future's
\* list, in its order, as one contiguous block of increasing video_order.
C8_ParentOrderKept ==
  /\ (pc \in {"videos", "done"} /\ plTask # <<>>) =>
       \A i \in DOMAIN channel_ids :
         OfChannel(playlists, channel_ids[i]) = plTask[i].playlists
  /\ \A j \in DOMAIN vTask :
       LET p == playlists[j].playlist_id IN
         /\ OfPlaylist(all_videos, p) =
              (IF vTask[j].st = "consumed" THEN vTask[j].videos ELSE <<>>)
         /\ OfPlaylist(playlist_videos, p) =
              (IF vTask[j].st = "consumed" THEN LinkRecords(vTask[j].videos) ELSE <<>>)
  /\ Contiguous(all_videos) /\ Increasing(all_videos)
  /\ Contiguous(playlist_videos) /\ Increasing(playlist_videos)

\* the future of the last playlist was consumed first and the three records
\* of the first playlist follow it, while another future is not yet consumed
C8_Witness ==
  /\ Len(all_videos) >= 4
  /\ Len(playlist_videos) = Len(all_videos)
  /\ all_videos[1].playlist_id = 21
  /\ Len(OfPlaylist(all_videos, 11)) = 3
  /\ \E j \in DOMAIN vTask : vTask[j].st # "consumed"

\* ---- C9 --------------------------------------------------------------------
\* C9: fetch_channel_id asks by forUsername first and by forHandle if and
\* only if that answer was empty; it returns the first identifier of the
\* first non-empty answer, None when both are empty or a request failed;
\* main keeps exactly the identifiers found, in handle order, and goes on
\* whenever there is one.
C9_ResolveThenFilter ==
  /\ pc = "ids" =>
       \A i \in DOMAIN idTask :
         LET t == idTask[i] IN
           /\ t.st = "new" <=> t.log = <<>>
           /\ Len(t.log) <= 2
           /\ t.log # <<>> => t.log[1].form = "forUsername"
           /\ Len(t.log) = 2 =>
                t.log[2].form = "forHandle" /\ t.log[1].ok /\ t.log[1].items = <<>>
           /\ (Finished(t) /\ t.log[1].ok /\ t.log[1].items = <<>>) => Len(t.log) = 2
           /\ t.st = "running" => (t.log[1].ok /\ t.log[1].items = <<>>)
           /\ Finished(t) =>
                t.result = (IF t.log[1].items # <<>> THEN t.log[1].items[1]
                            ELSE IF Len(t.log) = 2 /\ t.log[2].items # <<>>
                                 THEN t.log[2].items[1]
                                 ELSE None)
           /\ ~Finished(t) => t.result = None
  /\ pc # "ids" =>
       /\ channel_ids = SelectSeq([i \in DOMAIN idTask |-> idTask[i].result], IsSet)
       /\ ~NoneResolved => (pc # "done" \/ saves # <<>>)

\* one handle was found by its second lookup while the other was found by
\* neither
C9_Witness ==
  /\ pc = "ids"
  /\ \E i, k \in DOMAIN idTask :
       /\ Finished(idTask[i]) /\ Len(idTask[i].log) = 2 /\ idTask[i].result # None
       /\ Finished(idTask[k]) /\ Len(idTask[k].log) = 2 /\ idTask[k].result = None
            /\ idTask[k].log[2].ok

\* ---- C10 -------------------------------------------------------------------
\* C10: at the end of a run every row of playlists.csv has the channel_id of
\* a row of channels.csv, and every row of playlist_videos.csv has the
\* playlist_id of a row of playlists.csv.
C10_ReferentialIntegrity ==
  pc = "done" =>
    /\ \A r \in Rows("playlists.csv") :
         \E c \in Rows("channels.csv") : c.channel_id = r.channel_id
    /\ \A r \in Rows("playlist_videos.csv") :
         \E q \in Rows("playlists.csv") : q.playlist_id = r.playlist_id

====
